---- MODULE Spec2Model ----
(***************************************************************************)
(* Conway's Game of Life on a toroidal grid: the Universe of src/lib.rs.    *)
(*                                                                         *)
(* A Universe is the three fields width, height and cells.  cells is the   *)
(* Vec<Cell>, modelled as a function from the indices 0 .. len-1 to the    *)
(* byte codes of Cell (Dead = 0, Alive = 1).  Indexing a Vec outside its   *)
(* length panics; a panic aborts the call that made it (the wasm build     *)
(* traps), so a panicked universe accepts no further call.                 *)
(*                                                                         *)
(* All u32 values of the model stay far below 2^32, so no product or sum   *)
(* of get_index wraps.                                                     *)
(***************************************************************************)
EXTENDS Integers, Sequences, FiniteSets, TLC

VARIABLES
    width,      \* Universe.width
    height,     \* Universe.height
    cells,      \* Universe.cells: [0 .. len-1 -> {Dead, Alive}]
    panicked,   \* TRUE once a call aborted on a failed bounds check
    last,       \* the last call made: [op, row, col]
    seed,       \* the values the random source gave to new; <<>> otherwise
    gen         \* the driver's count of generations in a counted run

vars == <<width, height, cells, panicked, last, seed, gen>>

----------------------------------------------------------------------------
(* Bounds of the model *)

\* the general specification holds every grid of at most MaxCells cells
MaxCells == 9
\* the square specification holds every n x n grid with n <= MaxSide
MaxSide == 3
\* the pattern specification holds grids of 3 .. MaxPatternDim rows and columns
MaxPatternDim == 5
\* new is modelled for sides 4 .. MaxNewSide (the source's side is 64)
MaxNewSide == 5
\* the random source leaves at most MaxRandom cells Alive, or at most
\* MaxRandom cells Dead
MaxRandom == 2
\* the glider runs on squares of side 5 .. MaxGliderSide
MaxGliderSide == 8
\* a counted run makes at most MaxGen ticks
MaxGen == 36

----------------------------------------------------------------------------
(* enum Cell *)

Dead == 0
Alive == 1
Cell == {Dead, Alive}

\* the Universe struct as a value
Universe(w, h, c) == [width |-> w, height |-> h, cells |-> c]

Self == Universe(width, height, cells)

\* Vec::len
VecLen(c) == Cardinality(DOMAIN c)

\* every Vec<Cell> of length n
CellVecs(n) == [0 .. n - 1 -> Cell]

----------------------------------------------------------------------------
(* fn get_index(&self, row, column) -> usize *)

get_index_swapped(u, row, column) == column * u.width + row

get_index(u, row, column) == row * u.width + column

\* the bounds check of self.cells[idx]
InBounds(u, idx) == idx \in DOMAIN u.cells

----------------------------------------------------------------------------
(* fn get_live_neighbor_count(&self, row, column) -> u8 *)

\* the arrays the two loops iterate over
DeltaRows(u) == <<u.height - 1, 0, 1>>
DeltaCols(u) == <<u.width - 1, 0, 1>>

\* the (delta_row, delta_col) pairs in loop order, those skipped by
\* `continue` left out
Deltas(u) ==
    LET dr == DeltaRows(u)
        dc == DeltaCols(u)
        all == <<<<dr[1], dc[1]>>, <<dr[1], dc[2]>>, <<dr[1], dc[3]>>,
                 <<dr[2], dc[1]>>, <<dr[2], dc[2]>>, <<dr[2], dc[3]>>,
                 <<dr[3], dc[1]>>, <<dr[3], dc[2]>>, <<dr[3], dc[3]>>>>
    IN  SelectSeq(all, LAMBDA d : ~(d[1] = 0 /\ d[2] = 0))

\* idx of the neighbour at offset d
NeighborIdx(u, row, column, d) ==
    LET neighbor_row == (row + d[1]) % u.width
        neighbor_col == (column + d[2]) % u.height
    IN  get_index(u, neighbor_row, neighbor_col)

\* the indices read, in order
NeighborIdxs(u, row, column) ==
    LET ds == Deltas(u)
    IN  [k \in 1 .. Len(ds) |-> NeighborIdx(u, row, column, ds[k])]

\* the result of the function: the count it returns, or the panic of a
\* self.cells[idx] that fails its bounds check
Counted(n) == [panicked |-> FALSE, count |-> n]
CountPanic == [panicked |-> TRUE, count |-> 0]

\* the loop body from the k-th offset on, count being the sum so far
RECURSIVE CountFrom(_, _, _, _, _, _)
CountFrom(u, row, column, ds, k, count) ==
    IF k > Len(ds) THEN Counted(count)
    ELSE LET idx == NeighborIdx(u, row, column, ds[k])
         IN  IF ~InBounds(u, idx) THEN CountPanic
             ELSE CountFrom(u, row, column, ds, k + 1, count + u.cells[idx])

get_live_neighbor_count(u, row, column) ==
    CountFrom(u, row, column, Deltas(u), 1, 0)

----------------------------------------------------------------------------
(* pub fn set_alive(&mut self, row, col) *)

\* the result of a call: the universe it leaves and whether it panicked
Ok(u) == [u |-> u, panicked |-> FALSE]
Panic(u) == [u |-> u, panicked |-> TRUE]

set_alive_push(u, row, col) ==
    LET idx == get_index(u, row, col)
        n == VecLen(u.cells)
    IN  Ok([u EXCEPT !.cells = [i \in 0 .. n |-> IF i = n THEN Alive ELSE u.cells[i]]])

set_alive(u, row, col) ==
    LET idx == get_index(u, row, col)
    IN  IF InBounds(u, idx)
        THEN Ok([u EXCEPT !.cells[idx] = Alive])
        ELSE Panic(u)

----------------------------------------------------------------------------
(* pub fn generate_glider(&mut self) *)

GliderCells == <<<<1, 2>>, <<2, 3>>, <<3, 1>>, <<3, 2>>, <<3, 3>>>>

\* the calls of generate_glider from the k-th on; a panic ends them
RECURSIVE GliderFrom(_, _)
GliderFrom(u, k) ==
    IF k > Len(GliderCells) THEN Ok(u)
    ELSE LET r == set_alive(u, GliderCells[k][1], GliderCells[k][2])
         IN  IF r.panicked THEN r ELSE GliderFrom(r.u, k + 1)

generate_glider(u) == GliderFrom(u, 1)

----------------------------------------------------------------------------
(* pub fn tick(&mut self) *)

\* the match on (cell, live_neighbors)
next_cell_survive4(cell, x) ==
    CASE cell = Alive /\ x < 2 -> Dead
      [] cell = Alive /\ x \in {2, 3, 4} -> Alive
      [] cell = Alive /\ x > 4 -> Dead
      [] cell = Dead /\ x = 3 -> Alive
      [] OTHER -> cell

next_cell(cell, x) ==
    CASE cell = Alive /\ x < 2 -> Dead
      [] cell = Alive /\ (x = 2 \/ x = 3) -> Alive
      [] cell = Alive /\ x > 3 -> Dead
      [] cell = Dead /\ x = 3 -> Alive
      [] OTHER -> cell

\* the inner loop `for col in 0..self.width` of one row, from col on, next
\* being the buffer so far; the result is the buffer at the end of the row,
\* or the panic of a read
RECURSIVE TickCols(_, _, _, _)
TickCols(u, next, row, col) ==
    IF col >= u.width THEN [panicked |-> FALSE, next |-> next]
    ELSE LET idx == get_index(u, row, col)
             live_neighbors == get_live_neighbor_count(u, row, col)
         IN  IF ~InBounds(u, idx) \/ live_neighbors.panicked
             THEN [panicked |-> TRUE, next |-> next]
             ELSE LET cell == u.cells[idx]
                      next_cell_ == next_cell(cell, live_neighbors.count)
                  IN  TickCols(u, [next EXCEPT ![idx] = next_cell_], row, col + 1)

\* the outer loop `for row in 0..self.height`, from row on
RECURSIVE TickRows(_, _, _)
TickRows(u, next, row) ==
    IF row >= u.height THEN [panicked |-> FALSE, next |-> next]
    ELSE LET r == TickCols(u, next, row, 0)
         IN  IF r.panicked THEN r ELSE TickRows(u, r.next, row + 1)

\* the same loops reading the buffer they write: an update in place
RECURSIVE TickColsInPlace(_, _, _)
TickColsInPlace(u, row, col) ==
    IF col >= u.width THEN [panicked |-> FALSE, next |-> u.cells]
    ELSE LET idx == get_index(u, row, col)
             live_neighbors == get_live_neighbor_count(u, row, col)
         IN  IF ~InBounds(u, idx) \/ live_neighbors.panicked
             THEN [panicked |-> TRUE, next |-> u.cells]
             ELSE LET cell == u.cells[idx]
                      next_cell_ == next_cell(cell, live_neighbors.count)
                  IN  TickColsInPlace([u EXCEPT !.cells[idx] = next_cell_], row, col + 1)

RECURSIVE TickRowsInPlace(_, _)
TickRowsInPlace(u, row) ==
    IF row >= u.height THEN [panicked |-> FALSE, next |-> u.cells]
    ELSE LET r == TickColsInPlace(u, row, 0)
         IN  IF r.panicked THEN r
             ELSE TickRowsInPlace([u EXCEPT !.cells = r.next], row + 1)

tick_in_place(u) ==
    LET r == TickRowsInPlace(u, 0)
    IN  IF r.panicked THEN Panic(u) ELSE Ok([u EXCEPT !.cells = r.next])

tick(u) ==
    LET r == TickRows(u, u.cells, 0)
    IN  IF r.panicked THEN Panic(u) ELSE Ok([u EXCEPT !.cells = r.next])

----------------------------------------------------------------------------
(* pub fn new() -> Universe, for a side n and the random values rnd *)

new(n, rnd) ==
    LET width_ == n
        height_ == n
    IN  generate_glider(Universe(width_, height_, rnd))

----------------------------------------------------------------------------
(* The calls as actions *)

NoCall == [op |-> "none", row |-> 0, col |-> 0]
Call(op) == [op |-> op, row |-> 0, col |-> 0]

\* a universe exists and no call has aborted
Live == last.op # "unbuilt" /\ ~panicked

\* the fields after a call with result r
Becomes(r) ==
    /\ width' = r.u.width
    /\ height' = r.u.height
    /\ cells' = r.u.cells
    /\ panicked' = r.panicked

TickCall ==
    /\ Live
    /\ Becomes(tick(Self))
    /\ last' = Call("tick")
    /\ UNCHANGED seed

\* the host calls tick
Tick == TickCall /\ UNCHANGED gen

\* a driver that counts the generations it runs
TickGen ==
    /\ gen < MaxGen
    /\ TickCall
    /\ gen' = gen + 1

\* the host calls set_alive(row, col); the arguments reach one past the grid
SetAlive(row, col) ==
    /\ Live
    /\ Becomes(set_alive(Self, row, col))
    /\ last' = [op |-> "set_alive", row |-> row, col |-> col]
    /\ UNCHANGED <<seed, gen>>

GenerateGlider ==
    /\ Live
    /\ Becomes(generate_glider(Self))
    /\ last' = Call("generate_glider")
    /\ UNCHANGED <<seed, gen>>

----------------------------------------------------------------------------
(* The general specification: every grid of at most MaxCells cells, every  *)
(* call                                                                    *)

Init ==
    /\ width \in 1 .. MaxCells
    /\ height \in 1 .. (MaxCells \div width)
    /\ cells \in CellVecs(width * height)
    /\ panicked = FALSE
    /\ last = NoCall
    /\ seed = <<>>
    /\ gen = 0

Next ==
    \/ Tick
    \/ \E row \in 0 .. height, col \in 0 .. width : SetAlive(row, col)
    \/ GenerateGlider

Spec == Init /\ [][Next]_vars

----------------------------------------------------------------------------
(* The square specification: every n x n grid, advanced by tick            *)

InitSquare ==
    /\ width \in 1 .. MaxSide
    /\ height = width
    /\ cells \in CellVecs(width * height)
    /\ panicked = FALSE
    /\ last = NoCall
    /\ seed = <<>>
    /\ gen = 0

NextSquare == Tick

SpecSquare == InitSquare /\ [][NextSquare]_vars

----------------------------------------------------------------------------
(* The pattern specification: grids, square or not, that hold no Alive     *)
(* cell, one Alive cell, or one 2x2 block of Alive cells (wrapping at the  *)
(* edges), advanced by tick                                                *)

\* the Vec<Cell> of a w x h grid whose Alive cells are the coordinates in S
Grid(w, h, S) ==
    [i \in 0 .. w * h - 1 |-> IF <<i \div w, i % w>> \in S THEN Alive ELSE Dead]

\* the 2x2 block whose top-left cell is (r0, c0) on a w x h torus
Block(w, h, r0, c0) ==
    {<<(r0 + i) % h, (c0 + j) % w>> : i \in {0, 1}, j \in {0, 1}}

Patterns(w, h) ==
    {{}} \cup {{<<r, c>>} : r \in 0 .. h - 1, c \in 0 .. w - 1}
         \cup {Block(w, h, r0, c0) : r0 \in 0 .. h - 1, c0 \in 0 .. w - 1}

InitPattern ==
    /\ width \in 3 .. MaxPatternDim
    /\ height \in 3 .. MaxPatternDim
    /\ cells \in {Grid(width, height, S) : S \in Patterns(width, height)}
    /\ panicked = FALSE
    /\ last = NoCall
    /\ seed = <<>>
    /\ gen = 0

NextPattern == Tick

SpecPattern == InitPattern /\ [][NextPattern]_vars

----------------------------------------------------------------------------
(* The construction specification: new() builds the universe from the      *)
(* values of the random source, then the host may seed the glider again    *)

\* the subsets of 0 .. n-1 with at most k members
RECURSIVE SmallSubsets(_, _)
SmallSubsets(n, k) ==
    IF k = 0 THEN {{}}
    ELSE LET P == SmallSubsets(n, k - 1)
         IN  P \cup {s \cup {x} : s \in P, x \in 0 .. n - 1}

\* what (0..width * height).map(|_| random() > 0.5 ...) may collect
RandomOutcomes(n) ==
    LET few == SmallSubsets(n, MaxRandom)
    IN  {[i \in 0 .. n - 1 |-> IF i \in s THEN Alive ELSE Dead] : s \in few}
        \cup {[i \in 0 .. n - 1 |-> IF i \in s THEN Dead ELSE Alive] : s \in few}

InitNew ==
    /\ width = 0
    /\ height = 0
    /\ cells = <<>>
    /\ panicked = FALSE
    /\ last = Call("unbuilt")
    /\ seed = <<>>
    /\ gen = 0

New ==
    /\ last.op = "unbuilt"
    /\ \E n \in 4 .. MaxNewSide :
         \E rnd \in RandomOutcomes(n * n) :
            /\ Becomes(new(n, rnd))
            /\ seed' = rnd
    /\ last' = Call("new")
    /\ UNCHANGED gen

NextNew ==
    \/ New
    \/ GenerateGlider

SpecNew == InitNew /\ [][NextNew]_vars

----------------------------------------------------------------------------
(* The glider specification: a square grid that holds the glider alone,    *)
(* advanced by a driver that counts its ticks                              *)

InitGlider ==
    /\ width \in 5 .. MaxGliderSide
    /\ height = width
    /\ cells = generate_glider(Universe(width, height,
                  [i \in 0 .. width * height - 1 |-> Dead])).u.cells
    /\ panicked = FALSE
    /\ last = NoCall
    /\ seed = <<>>
    /\ gen = 0

NextGlider == TickGen

SpecGlider == InitGlider /\ [][NextGlider]_vars

----------------------------------------------------------------------------
(* The statements of the specification, in its own terms *)

\* the cell at (row, col) of a row-major grid
At(u, row, col) == u.cells[row * u.width + col]

Rows == 0 .. height - 1
Cols == 0 .. width - 1

\* the coordinates of the Alive cells
AliveCoords == {rc \in Rows \X Cols : At(Self, rc[1], rc[2]) = Alive}

\* the eight neighbour offsets
Offsets ==
    {<<-1, -1>>, <<-1, 0>>, <<-1, 1>>, <<0, -1>>, <<0, 1>>, <<1, -1>>, <<1, 0>>, <<1, 1>>}

\* the number of offsets (dr, dc) whose cell
\* ((row + dr) mod height, (col + dc) mod width) is Alive
TorusCount(u, row, col) ==
    Cardinality({d \in Offsets :
        At(u, (row + d[1]) % u.height, (col + d[2]) % u.width) = Alive})

\* the Life rule
LifeRule(cell, n) ==
    IF cell = Alive
    THEN (IF n < 2 THEN Dead ELSE IF n <= 3 THEN Alive ELSE Dead)
    ELSE (IF n = 3 THEN Alive ELSE Dead)

\* the five cells of the glider
Glider == {<<1, 2>>, <<2, 3>>, <<3, 1>>, <<3, 2>>, <<3, 3>>}

----------------------------------------------------------------------------
(* Claims *)

C2_NeighborCountIsTorusCount ==
    Live =>
       \A row \in Rows, col \in Cols :
          get_live_neighbor_count(Self, row, col) = Counted(TorusCount(Self, row, col))

\* C3: a call set_alive(row, col) with row >= height or col >= width fails
\* with a bounds error and changes no cell.
\* Checked under Spec.
C3_OutOfRangeRejected ==
    [][(last'.op = "set_alive" /\ (last'.row >= height \/ last'.col >= width)) =>
         (panicked' /\ cells' = cells)]_vars

\* C4: in every state the cells are indexed by 0 .. width * height - 1, so
\* their length is width * height, and no step changes width or height.
\* Checked under Spec.
C4_GridSizeInvariant ==
    /\ [](DOMAIN cells = 0 .. width * height - 1 /\ VecLen(cells) = width * height)
    /\ [][width' = width /\ height' = height]_vars

\* a tick has run to its end on a 2x3 grid that holds Alive cells
C4_Witness ==
    /\ last.op = "tick"
    /\ ~panicked
    /\ width = 2
    /\ height = 3
    /\ AliveCoords # {}

\* C5: right after new, the five glider cells are Alive and every other
\* cell holds the value the random source gave it.
\* Checked under SpecNew.
C5_GliderAfterNew ==
    last.op = "new" =>
       /\ ~panicked
       /\ \A row \in Rows, col \in Cols :
             At(Self, row, col) =
                IF <<row, col>> \in Glider THEN Alive ELSE seed[row * width + col]

\* new has run where the random source left a glider cell Dead and a cell
\* outside the glider Alive
C5_Witness ==
    /\ last.op = "new"
    /\ seed[1 * width + 2] = Dead
    /\ \E row \in Rows, col \in Cols :
          <<row, col>> \notin Glider /\ seed[row * width + col] = Alive

\* C6: on a grid of at least 4 rows and 4 columns whose only Alive cells
\* are a 2x2 block, a call to tick completes and leaves the grid unchanged.
\* Checked under SpecPattern.
C6_BlockIsStill ==
    [][(/\ width >= 4
        /\ height >= 4
        /\ \E r0 \in Rows, c0 \in Cols : AliveCoords = Block(width, height, r0, c0)
        /\ last'.op = "tick") =>
         (~panicked' /\ cells' = cells)]_vars

\* C7: on a grid of at least 3 rows and 3 columns, get_live_neighbor_count(0, 0)
\* is 1 when (height-1, width-1) is the only Alive cell, and 0 when no cell
\* is Alive.
\* Checked under SpecPattern.
C7_DiagonalWrap ==
    (Live /\ width >= 3 /\ height >= 3) =>
       /\ AliveCoords = {<<height - 1, width - 1>>}
             => get_live_neighbor_count(Self, 0, 0) = Counted(1)
       /\ AliveCoords = {} => get_live_neighbor_count(Self, 0, 0) = Counted(0)

\* C8: every call to tick ends normally, and every index it computes for a
\* cell or a neighbour lies in 0 .. width * height - 1.
\* Checked under Spec.
C8_TickTerminatesInBounds ==
    last.op = "tick" =>
       /\ ~panicked
       /\ \A row \in Rows, col \in Cols :
             /\ get_index(Self, row, col) \in 0 .. width * height - 1
             /\ \A k \in 1 .. Len(NeighborIdxs(Self, row, col)) :
                   NeighborIdxs(Self, row, col)[k] \in 0 .. width * height - 1

\* C9: in a 1x1 grid get_live_neighbor_count(0, 0) counts the cell at all
\* eight offsets: it is 8 when the cell is Alive and 0 when it is Dead, and
\* the cell is Dead after a tick.
\* Checked under Spec.
C9_OneByOneCountsEight ==
    (Live /\ width = 1 /\ height = 1) =>
       /\ get_live_neighbor_count(Self, 0, 0) = Counted(8 * cells[0])
       /\ last.op = "tick" => cells[0] = Dead

\* C10: a glider alone on a square grid of side n >= 5 has five Alive cells
\* in every generation, and after 4k ticks they are the glider's five cells
\* moved by k rows and k columns, modulo n.
\* Checked under SpecGlider.
C10_GliderTranslates ==
    /\ ~panicked
    /\ Cardinality(AliveCoords) = 5
    /\ gen % 4 = 0 =>
          AliveCoords = {<<(rc[1] + gen \div 4) % height, (rc[2] + gen \div 4) % width>> :
                            rc \in Glider}

\* on the grid of side 5 the glider has gone once around the torus and on
C10_Witness ==
    /\ width = 5
    /\ gen = 24
    /\ last.op = "tick"

====
